---------------------------- MODULE Spec2Model ----------------------------
(***************************************************************************)
(* Model of the SGE backend's onboarding workflow: the auth gate, the      *)
(* route table, the onboarding service (findOrCreateOrganization,          *)
(* createProfile, onboardUser, isUserOnboarded) and the three HTTP entry   *)
(* points that call it (POST /api/onboarding/complete, POST /webhooks/auth,*)
(* POST /webhooks/onboard), against the organizations and profiles tables. *)
(*                                                                         *)
(* Every awaited datastore call is one atomic step; the JavaScript that    *)
(* runs between two awaits is part of the step that follows the first.     *)
(* The datastore is reliable in these specifications: a query fails only   *)
(* for the reasons the schema gives (no row, duplicate primary key).       *)
(***************************************************************************)
EXTENDS Integers, Sequences, FiniteSets, TLC

(***************************************************************************)
(* Bounds of the model.                                                    *)
(***************************************************************************)
\* HTTP requests that may be in flight at the same time.
MaxInFlight == 2
\* HTTP requests received in one behaviour.
MaxRequests == 3
\* Service calls made in one behaviour of the sequential specification.
MaxSvcCalls == 3
\* Chat requests received in one behaviour.
MaxChatRequests == 2

(***************************************************************************)
(* JavaScript values and strings.  A string is a sequence of characters.   *)
(***************************************************************************)
Undefined == [t |-> "undefined", s |-> <<>>]
Null      == [t |-> "null", s |-> <<>>]
\* A JSON number other than 0 (a body field that is not a string).
Num       == [t |-> "number", s |-> <<>>]
Str(s)    == [t |-> "string", s |-> s]

\* JavaScript truthiness of the values above.
Truthy(v) == \/ v.t = "number"
             \/ v.t = "string" /\ v.s # <<>>

\* a || b
JsOr(a, b) == IF Truthy(a) THEN a ELSE b

IsSpace(c) == c = " "

RECURSIVE TrimStart(_)
TrimStart(s) == IF s # <<>> /\ IsSpace(Head(s)) THEN TrimStart(Tail(s)) ELSE s

RECURSIVE TrimEnd(_)
TrimEnd(s) == IF s # <<>> /\ IsSpace(s[Len(s)])
              THEN TrimEnd(SubSeq(s, 1, Len(s) - 1))
              ELSE s

\* String.prototype.trim
Trim(s) == TrimEnd(TrimStart(s))

\* Lower-casing of the letters of the model's alphabet.
ToLowerChar(c) == CASE c = "A" -> "a"
                    [] c = "B" -> "b"
                    [] c = "D" -> "d"
                    [] c = "O" -> "o"
                    [] OTHER   -> c

ToLower(s) == [i \in 1..Len(s) |-> ToLowerChar(s[i])]

\* PostgreSQL's  s ILIKE p : % matches any run of characters, _ any one
\* character, every other character itself, ignoring letter case.
RECURSIVE ILike(_, _)
ILike(s, p) ==
  IF p = <<>> THEN s = <<>>
  ELSE IF Head(p) = "%"
       THEN ILike(s, Tail(p)) \/ (s # <<>> /\ ILike(Tail(s), p))
       ELSE /\ s # <<>>
            /\ (Head(p) = "_" \/ ToLowerChar(Head(s)) = ToLowerChar(Head(p)))
            /\ ILike(Tail(s), Tail(p))

\* 'Default Organization'
DefaultOrganization ==
  <<"D","e","f","a","u","l","t"," ","O","r","g","a","n","i","z","a","t","i","o","n">>

(***************************************************************************)
(* Identities and inputs.                                                  *)
(***************************************************************************)
Users == {"u1", "u2"}

\* Authorization headers: none, a token the identity provider rejects, or
\* the valid token of a user.
NoHeader  == [kind |-> "none", user |-> "-"]
BadToken  == [kind |-> "invalid", user |-> "-"]
TokenOf(u) == [kind |-> "valid", user |-> u]
Headers   == {NoHeader, BadToken} \cup {TokenOf(u) : u \in Users}

\* Organization names a request body or signup metadata may carry.
NameInputs ==
  { Undefined, Num, Str(<<>>), Str(<<" ">>),
    Str(<<"a">>), Str(<<"A">>), Str(<<" ", "a", " ">>), Str(<<"b">>),
    Str(<<"%">>), Str(ToLower(DefaultOrganization)) }

\* The names the HTTP requests of the concurrent specification carry.
RequestNames ==
  { Undefined, Num, Str(<<>>), Str(<<" ">>), Str(<<"a">>), Str(<<" ", "A">>) }


(***************************************************************************)
(* The datastore.  organizations[i] is the name of the organization whose  *)
(* id is i (gen_random_uuid: a fresh id per insert); profiles is the list  *)
(* of profile rows.  No onboarding operation updates or deletes a row.     *)
(***************************************************************************)
VARIABLES organizations, profiles

ProfileRow(id, orgId, role, fullName) ==
  [id |-> id, org_id |-> orgId, role |-> role, full_name |-> fullName]

\* Mutant: .eq('name', p) in place of .ilike('name', p).
MatchingOrgsExact(orgs, p) == {i \in DOMAIN orgs : orgs[i] = p}

\* from('organizations').select('id, name').ilike('name', p): the ids of the
\* rows the filter keeps.
MatchingOrgs(orgs, p) == {i \in DOMAIN orgs : ILike(orgs[i], p)}

\* ... .limit(1).single(): one of the matching rows, which one is not
\* specified (no ORDER BY); 0 stands for "no row" (PGRST116, data null).
OrgSearchResults(orgs, p) ==
  IF MatchingOrgs(orgs, p) = {} THEN {0} ELSE MatchingOrgs(orgs, p)

\* Mutant: the insert reports a row that the table does not keep.
OrgInsertDropped(orgs, name) == orgs

\* from('organizations').insert({ name }): the table after the insert; the
\* new row's id is its length.
OrgInsert(orgs, name) == Append(orgs, name)

\* Mutant: a profiles table without its primary key.
ProfileInsertNeverFails(profs, id) == FALSE

\* profiles.id is the primary key: an insert of an id that is present fails.
ProfileInsertFails(profs, id) == \E i \in DOMAIN profs : profs[i].id = id

\* Mutant: the insert replaces the rows of the table.
ProfileInsertReplacing(profs, row) == <<row>>

\* from('profiles').insert(row): the table after a successful insert.
ProfileInsert(profs, row) == Append(profs, row)

\* from('profiles').select(..).eq('id', id).single(): the rows with that id.
ProfilesOf(profs, id) == {i \in DOMAIN profs : profs[i].id = id}

(***************************************************************************)
(* The onboarding service.                                                 *)
(***************************************************************************)
\* const normalizedName = orgName?.trim() || 'Default Organization'
\* A value that is neither a string nor null/undefined has no trim method:
\* the call throws a TypeError.
NormalizeThrows(orgName) == orgName.t \notin {"undefined", "null", "string"}

\* Mutant: the name is not trimmed.
NormalizedNameUntrimmed(orgName) ==
  IF orgName.t = "string" /\ Trim(orgName.s) # <<>>
  THEN orgName.s
  ELSE DefaultOrganization

\* Mutant: no default for an empty or whitespace-only string.
NormalizedNameNoDefault(orgName) ==
  IF orgName.t = "string" THEN Trim(orgName.s) ELSE DefaultOrganization

NormalizedName(orgName) ==
  IF orgName.t = "string" /\ Trim(orgName.s) # <<>>
  THEN Trim(orgName.s)
  ELSE DefaultOrganization

\* Mutant: the lookup's result is dropped.
IsUserOnboardedNever(profs, userId) == FALSE

\* isUserOnboarded: !!data of the lookup by primary key.
IsUserOnboarded(profs, userId) == ProfilesOf(profs, userId) # {}

\* isUserOnboarded as a whole.  Without an admin client it throws.  A lookup
\* error other than PGRST116 ("no rows") is logged and false is returned;
\* otherwise the result is !!data.
IsUserOnboardedOutcome(admin, lookupError, profs, userId) ==
  IF ~admin THEN [threw |-> TRUE, onboarded |-> FALSE]
  ELSE IF lookupError THEN [threw |-> FALSE, onboarded |-> FALSE]
  ELSE [threw |-> FALSE, onboarded |-> IsUserOnboarded(profs, userId)]

NotConfigured == "Supabase admin client is not configured"

\* Mutant: the role is taken from the wrong constant.
ProfileDataAdmin(userId, orgId, fullName) ==
  ProfileRow(userId, orgId, "admin", fullName)

\* createProfile's row: role is fixed, full_name is the argument.
ProfileData(userId, orgId, fullName) ==
  ProfileRow(userId, orgId, "member", fullName)

\* onboardUser: metadata.organization_name || metadata.organizationName
ExtractOrgName(metadata) ==
  JsOr(metadata.organization_name, metadata.organizationName)

\* onboardUser: metadata.full_name || null
ExtractFullName(metadata) == JsOr(metadata.full_name, Null)

(***************************************************************************)
(* The HTTP surface.                                                       *)
(***************************************************************************)
Absent == "<absent>"

\* A JSON response: its status and the fields the claims read.  org is an
\* organization id (0: no such field), profile a user id.
Response(status, success, message, error, org, profile) ==
  [status |-> status, success |-> success, message |-> message,
   error |-> error, org |-> org, profile |-> profile]

NoResponse == Response(0, Absent, Absent, Absent, 0, Absent)

\* The middleware and handler each route runs, in order, as mounted.
Pipeline(route) ==
  CASE route = "GET /api/healthz" -> <<"healthz">>
    [] route = "GET /" -> <<"healthController.check">>
    [] route = "POST /webhooks/auth" -> <<"handleAuthWebhook">>
    [] route = "POST /webhooks/onboard" -> <<"authMiddleware", "manualOnboard">>
    [] route = "POST /api/onboarding/complete"
         -> <<"authMiddleware", "completeOnboarding">>
    [] route = "GET /api/dashboard/summary"
         -> <<"authMiddleware", "dashboardSummary">>
    [] route = "GET /api/chat/conversations"
         -> <<"authMiddleware", "listConversations">>
    [] route = "POST /api/chat/conversations"
         -> <<"authMiddleware", "createConversation">>
    [] route = "GET /api/chat/conversations/:id/messages"
         -> <<"authMiddleware", "listMessages">>
    [] route = "POST /api/chat/message"
         -> <<"authMiddleware", "sendMessage">>

Routes ==
  { "GET /api/healthz", "GET /", "POST /webhooks/auth", "POST /webhooks/onboard",
    "POST /api/onboarding/complete", "GET /api/dashboard/summary",
    "GET /api/chat/conversations", "POST /api/chat/conversations",
    "GET /api/chat/conversations/:id/messages", "POST /api/chat/message" }

Gated(route) == Head(Pipeline(route)) = "authMiddleware"

Handler(route) == Pipeline(route)[Len(Pipeline(route))]

\* Mutant: a token that fails validation is let through.
AuthRejectsRelaxed(hdr) == hdr.kind = "none"

\* authMiddleware: does it answer itself instead of calling next()?
AuthRejects(hdr) == hdr.kind # "valid"

\* authMiddleware's own answer.
AuthResponse(hdr) ==
  IF hdr.kind = "none"
  THEN Response(401, Absent, Absent, "No authorization header provided", 0, Absent)
  ELSE Response(401, Absent, Absent, "Invalid or expired token", 0, Absent)

\* Mutant: req.user without the profile lookup.
ReqUserIdOnly(hdr, profs) == [id |-> hdr.user, org_id |-> 0, role |-> Absent]

\* authMiddleware's req.user: the validated identity and, when the profile
\* lookup finds a row, its org_id and role (0 and Absent: undefined).
ReqUser(hdr, profs) ==
  IF ProfilesOf(profs, hdr.user) = {}
  THEN [id |-> hdr.user, org_id |-> 0, role |-> Absent]
  ELSE LET p == profs[CHOOSE i \in ProfilesOf(profs, hdr.user) : TRUE]
       IN  [id |-> hdr.user, org_id |-> p.org_id, role |-> p.role]

NoUser == [id |-> Absent, org_id |-> 0, role |-> Absent]

\* Mutant: the validation without its trim() test.
ValidOrganizationNameUntrimmed(v) ==
  /\ Truthy(v)
  /\ v.t = "string"

\* completeOnboarding's input validation.
ValidOrganizationName(v) ==
  /\ Truthy(v)
  /\ v.t = "string"
  /\ Trim(v.s) # <<>>


\* The metadata object the entry points hand to onboardUser.
Metadata(organization_name, organizationName, full_name) ==
  [organization_name |-> organization_name,
   organizationName |-> organizationName, full_name |-> full_name]

NoMetadata == Metadata(Undefined, Undefined, Undefined)

\* What each entry point answers when onboardUser has returned.
OnboardedResponse(route, org, userId) ==
  CASE route = "POST /api/onboarding/complete"
         -> Response(200, "true", "Onboarding completed successfully", Absent, org, userId)
    [] route = "POST /webhooks/auth"
         -> Response(200, "true", "User onboarded successfully", Absent, org, Absent)
    [] route = "POST /webhooks/onboard"
         -> Response(200, "true", "User onboarded successfully", Absent, org, userId)

\* Mutant: handleAuthWebhook without its catch block.
ThrownResponseUncaught(route, message) ==
  CASE route = "POST /api/onboarding/complete"
         -> Response(500, Absent, Absent, "Failed to complete onboarding", 0, Absent)
    [] route = "POST /webhooks/auth"
         -> Response(500, Absent, "Internal Server Error", Absent, 0, Absent)
    [] route = "POST /webhooks/onboard"
         -> Response(500, Absent, "Internal Server Error", Absent, 0, Absent)

\* What each entry point answers when the service throws: the catch blocks
\* of completeOnboarding and handleAuthWebhook; manualOnboard has none, so
\* the global error middleware answers.
ThrownResponse(route, message) ==
  CASE route = "POST /api/onboarding/complete"
         -> Response(500, Absent, Absent, "Failed to complete onboarding", 0, Absent)
    [] route = "POST /webhooks/auth"
         -> Response(200, "false", "Webhook processed with errors", message, 0, Absent)
    [] route = "POST /webhooks/onboard"
         -> Response(500, Absent, "Internal Server Error", Absent, 0, Absent)

\* Mutant: manualOnboard answering an onboarded user as the webhook does.
AlreadyOnboardedResponseSkipped(route) ==
  Response(200, Absent, "User already onboarded", Absent, 0, Absent)

\* What each entry point answers when isUserOnboarded returned true and no
\* further lookup is made.
AlreadyOnboardedResponse(route) ==
  CASE route = "POST /webhooks/auth"
         -> Response(200, Absent, "User already onboarded", Absent, 0, Absent)
    [] route = "POST /webhooks/onboard"
         -> Response(400, Absent, Absent, "User is already onboarded", 0, Absent)

\* The handlers that touch neither organizations nor profiles.  The chat
\* handlers work on the conversations and messages tables, which are not part
\* of this specification; createConversation and sendMessage first refuse a
\* caller without an organization.
StaticResponse(route, user) ==
  CASE Handler(route) \in {"createConversation", "sendMessage"}
         -> IF user.org_id = 0
            THEN Response(400, Absent, Absent,
                          "User does not belong to an organization", 0, Absent)
            ELSE Response(IF Handler(route) = "createConversation" THEN 201 ELSE 200,
                          Absent, Absent, Absent, 0, Absent)
    [] OTHER -> Response(200, Absent, Absent, Absent, 0, Absent)

StaticRoutes ==
  Routes \ {"POST /webhooks/auth", "POST /webhooks/onboard",
            "POST /api/onboarding/complete"}

(***************************************************************************)
(* Requests in flight.  req[r] is the request in slot r: where its handler *)
(* stands (pc), its locals, its response, and what it has done so far.     *)
(***************************************************************************)
VARIABLES req, received, firstDone

(***************************************************************************)
(* A single caller of the service, one call after the other, as            *)
(* test-onboarding.js makes them: svcLog holds the last two calls with     *)
(* their results, svcCalls counts the calls made.                          *)
(***************************************************************************)
VARIABLES svcLog, svcCalls

(***************************************************************************)
(* The deployment: whether utils/supabase exports an admin client          *)
(* (SUPABASE_SERVICE_ROLE_KEY is set), whether GeminiService has a model   *)
(* (GEMINI_API_KEY is set), and which of the two chat controllers of the   *)
(* repository is the one deployed.  None of them changes while the server  *)
(* runs.                                                                   *)
(***************************************************************************)
VARIABLES supabaseAdmin, geminiModel, chatController

(***************************************************************************)
(* The chat tables (or the controller's in-memory arrays), the chat        *)
(* request being handled and the number of chat requests received.         *)
(***************************************************************************)
VARIABLES conversations, messages, chat, chatReceived

chatVars == <<geminiModel, chatController, conversations, messages, chat,
              chatReceived>>

InMemory == "chatController.js (in-memory)"
Supabase == "chatController.js (Supabase, Gemini)"

\* A response of POST /api/chat/message: its status; conversation_id and the
\* contents of the two messages on success; whether it has an error field.
ChatResponse(status, hasError, conversation_id, userContent, assistantContent) ==
  [status |-> status, hasError |-> hasError, conversation_id |-> conversation_id,
   userContent |-> userContent, assistantContent |-> assistantContent]

NoChatResponse == ChatResponse(0, FALSE, Undefined, Undefined, Undefined)

\* No chat request is being handled.
IdleChat ==
  [pc |-> "idle", user |-> NoUser, conversation_id |-> Undefined,
   content |-> Undefined, chatId |-> Undefined, convsBefore |-> 0,
   msgsBefore |-> 0, replyContent |-> Undefined, geminiFailed |-> FALSE,
   fault |-> Absent, resp |-> NoChatResponse,
   userMsgAt |-> 0, contextHistory |-> <<>>, overlapping |-> 0, listed |-> <<>>]

Slots == 1..MaxInFlight

NoFirst == [org |-> 0, profile |-> Absent]

IdleRequest ==
  [route |-> Absent, pc |-> "idle", hdr |-> NoHeader, user |-> NoUser,
   userId |-> Absent, metadata |-> NoMetadata, org |-> 0, resp |-> NoResponse,
   ran |-> FALSE, svc |-> 0, oIns |-> 0, pIns |-> 0,
   later |-> FALSE, alone |-> TRUE, bodyUserId |-> Absent, pFor |-> Absent,
   lookupFailed |-> FALSE, hadProfile |-> FALSE, evType |-> Absent]

InFlight == {q \in Slots : req[q].pc \notin {"idle", "done"}}

\* The answered requests: each leaves before the server takes another step.
Answering == {q \in Slots : req[q].pc = "done"}

FreeSlots == Slots \ InFlight

\* A request as it arrives in a free slot.
Arrived(route, hdr) ==
  [IdleRequest EXCEPT !.route = route, !.hdr = hdr]

\* The request answered: its handler is over.
Answered(q, resp) == [q EXCEPT !.pc = "done", !.resp = resp]

\* The request goes on to await a datastore call; it now overlaps every
\* other request in flight.
Admit(r, q) ==
  req' = [x \in Slots |->
            IF x = r THEN [q EXCEPT !.alone = (InFlight = {})]
            ELSE IF x \in InFlight THEN [req[x] EXCEPT !.alone = FALSE]
            ELSE req[x]]

\* The first successful POST /api/onboarding/complete of each user.
RecordFirst(q) ==
  firstDone' =
    IF /\ q.route = "POST /api/onboarding/complete"
       /\ q.resp.status = 200
       /\ firstDone[q.userId] = NoFirst
    THEN [firstDone EXCEPT ![q.userId] = [org |-> q.resp.org, profile |-> q.resp.profile]]
    ELSE firstDone


vars == <<organizations, profiles, req, received, firstDone, svcLog, svcCalls, supabaseAdmin, chatVars>>


Init ==
  /\ organizations = <<>>
  /\ profiles = <<>>
  /\ req = [r \in Slots |-> IdleRequest]
  /\ received = 0
  /\ firstDone = [u \in Users |-> NoFirst]
  /\ svcLog = <<>>
  /\ svcCalls = 0
  /\ supabaseAdmin = TRUE
  /\ geminiModel = FALSE
  /\ chatController = InMemory
  /\ conversations = <<>>
  /\ messages = <<>>
  /\ chat = IdleChat
  /\ chatReceived = 0

\* The lowest free slot takes the next request.
CanReceive(r) ==
  /\ received < MaxRequests
  /\ Answering = {}
  /\ r \in FreeSlots
  /\ \A x \in FreeSlots : r <= x

\* The request is answered in the step that receives it.
AnswerNow(r, q, resp) ==
  /\ req' = [req EXCEPT ![r] = Answered(q, resp)]
  /\ RecordFirst(Answered(q, resp))

\* router.use(..., authMiddleware, ...): a gated route's request reaches its
\* handler only through authMiddleware's next().
Rejected(route, hdr) == Gated(route) /\ AuthRejects(hdr)

\* req.user as the handler sees it.
UserSeen(route, hdr) == IF Gated(route) THEN ReqUser(hdr, profiles) ELSE NoUser

\* A request for a route whose handler awaits nothing this specification
\* holds: GET /, GET /api/healthz, the dashboard and the chat routes.
ReceiveStatic(r, route, hdr) ==
  /\ CanReceive(r)
  /\ received' = received + 1
  /\ IF Rejected(route, hdr)
     THEN AnswerNow(r, Arrived(route, hdr), AuthResponse(hdr))
     ELSE LET q == [Arrived(route, hdr) EXCEPT !.user = UserSeen(route, hdr),
                                               !.ran = TRUE]
          IN  AnswerNow(r, q, StaticResponse(route, q.user))
  /\ UNCHANGED <<organizations, profiles, svcLog, svcCalls, supabaseAdmin, chatVars>>

\* Mutant: the user id is taken from the body when the body gives one.
CompleteUserIdFromBody(user, bodyUserId) ==
  IF bodyUserId # Absent THEN bodyUserId ELSE user.id

\* completeOnboarding's userId: req.user?.id, whatever else the body holds.
CompleteUserId(user, bodyUserId) == user.id

\* POST /api/onboarding/complete: the auth gate, then completeOnboarding up
\* to its first await (the validation and the call of isUserOnboarded).
\* bodyUserId is a userId field the body may carry besides organization_name.
ReceiveComplete(r, hdr, organization_name, bodyUserId) ==
  LET route == "POST /api/onboarding/complete"
      q == [Arrived(route, hdr) EXCEPT
              !.metadata = Metadata(organization_name, Undefined, Undefined),
              !.bodyUserId = bodyUserId]
  IN
  /\ CanReceive(r)
  /\ received' = received + 1
  /\ IF Rejected(route, hdr)
     THEN AnswerNow(r, q, AuthResponse(hdr))
     ELSE LET h == [q EXCEPT !.user = UserSeen(route, hdr), !.ran = TRUE,
                             !.userId = CompleteUserId(UserSeen(route, hdr),
                                                       bodyUserId),
                             !.later = (firstDone[hdr.user] # NoFirst)]
          IN  IF ~ValidOrganizationName(organization_name)
              THEN AnswerNow(r, h,
                     Response(400, Absent, Absent,
                       "organization_name is required and must be a non-empty string",
                       0, Absent))
              ELSE /\ Admit(r, [h EXCEPT !.pc = "isUserOnboarded", !.svc = 1])
                   /\ UNCHANGED firstDone
  /\ UNCHANGED <<organizations, profiles, svcLog, svcCalls, supabaseAdmin, chatVars>>

\* POST /webhooks/onboard: the auth gate, then manualOnboard up to its first
\* await.  userId is the body's field (Absent: none given).
ReceiveManualOnboard(r, hdr, userId, organizationName) ==
  LET route == "POST /webhooks/onboard"
      q == [Arrived(route, hdr) EXCEPT
              !.metadata = Metadata(organizationName, Undefined, Undefined)]
  IN
  /\ CanReceive(r)
  /\ received' = received + 1
  /\ IF Rejected(route, hdr)
     THEN AnswerNow(r, q, AuthResponse(hdr))
     ELSE LET h == [q EXCEPT !.user = UserSeen(route, hdr), !.ran = TRUE,
                             !.userId = userId,
                             !.hadProfile = (userId # Absent
                                             /\ ProfilesOf(profiles, userId) # {})]
          IN  IF userId = Absent
              THEN AnswerNow(r, h,
                     Response(400, Absent, Absent, "userId is required", 0, Absent))
              ELSE /\ Admit(r, [h EXCEPT !.pc = "isUserOnboarded", !.svc = 1])
                   /\ UNCHANGED firstDone
  /\ UNCHANGED <<organizations, profiles, svcLog, svcCalls, supabaseAdmin, chatVars>>

\* Mutant: every event type is handled.
HandledEventTypeAny(type) == TRUE

\* The event types handleAuthWebhook acts on.
HandledEventType(type) == type \in {"INSERT", "user.created"}

\* POST /webhooks/auth (no auth gate): handleAuthWebhook up to its first
\* await.  userId is record.id (Absent: none), metadata the record's
\* raw_user_meta_data.
ReceiveAuthWebhook(r, hdr, type, userId, metadata) ==
  LET route == "POST /webhooks/auth"
      q == [Arrived(route, hdr) EXCEPT !.ran = TRUE, !.userId = userId,
                                       !.metadata = metadata,
                                       !.evType = type]
  IN
  /\ CanReceive(r)
  /\ received' = received + 1
  /\ IF ~HandledEventType(type)
     THEN AnswerNow(r, q,
            Response(200, Absent, "Event type not handled", Absent, 0, Absent))
     ELSE IF userId = Absent
     THEN AnswerNow(r, q,
            Response(400, Absent, Absent,
                     "Invalid webhook payload: missing user ID", 0, Absent))
     ELSE /\ Admit(r, [q EXCEPT !.pc = "isUserOnboarded", !.svc = 1])
          /\ UNCHANGED firstDone
  /\ UNCHANGED <<organizations, profiles, svcLog, svcCalls, supabaseAdmin, chatVars>>

\* A request's step that answers it.
Finish(r, q, resp) ==
  /\ req' = [req EXCEPT ![r] = Answered(q, resp)]
  /\ RecordFirst(Answered(q, resp))

\* A request's step that leaves it in flight.
Continue(r, q) ==
  /\ req' = [req EXCEPT ![r] = q]
  /\ UNCHANGED firstDone

\* The isUserOnboarded lookup returns.  Onboarded: completeOnboarding goes
\* on to fetch the profile, the two webhook handlers answer.  Not onboarded:
\* onboardUser is called and runs into findOrCreateOrganization, whose
\* normalisation may throw before the search is sent.
AfterIsUserOnboarded(r, q, out) ==
  IF out.threw
  THEN Finish(r, q, ThrownResponse(q.route, NotConfigured))
  ELSE IF out.onboarded
  THEN IF q.route = "POST /api/onboarding/complete"
       THEN Continue(r, [q EXCEPT !.pc = "fetchProfile"])
       ELSE Finish(r, q, AlreadyOnboardedResponse(q.route))
  ELSE LET c == [q EXCEPT !.svc = 2] IN
       IF NormalizeThrows(ExtractOrgName(q.metadata))
       THEN Finish(r, c, ThrownResponse(q.route, "orgName?.trim is not a function"))
       ELSE Continue(r, [c EXCEPT !.pc = "searchOrg"])

IsUserOnboardedStep(r) ==
  LET q == req[r] IN
  /\ q.pc = "isUserOnboarded"
  /\ Answering = {}
  /\ AfterIsUserOnboarded(r, q,
       IsUserOnboardedOutcome(supabaseAdmin, FALSE, profiles, q.userId))
  /\ UNCHANGED <<organizations, profiles, received, svcLog, svcCalls, supabaseAdmin, chatVars>>

\* findOrCreateOrganization: the search returns.  A row: createProfile is
\* called.  No row: the insert is sent.
SearchOrgStep(r) ==
  LET q == req[r] IN
  /\ q.pc = "searchOrg"
  /\ Answering = {}
  /\ \E o \in OrgSearchResults(organizations,
                               NormalizedName(ExtractOrgName(q.metadata))) :
       IF o # 0
       THEN Continue(r, [q EXCEPT !.pc = "insertProfile", !.org = o])
       ELSE Continue(r, [q EXCEPT !.pc = "insertOrg"])
  /\ UNCHANGED <<organizations, profiles, received, svcLog, svcCalls, supabaseAdmin, chatVars>>

\* findOrCreateOrganization: the insert is done; createProfile is called.
InsertOrgStep(r) ==
  LET q == req[r] IN
  /\ q.pc = "insertOrg"
  /\ Answering = {}
  /\ organizations' =
       OrgInsert(organizations, NormalizedName(ExtractOrgName(q.metadata)))
  /\ Continue(r, [q EXCEPT !.pc = "insertProfile",
                           !.org = Len(organizations'),
                           !.oIns = q.oIns + 1])
  /\ UNCHANGED <<profiles, received, svcLog, svcCalls, supabaseAdmin, chatVars>>

\* createProfile: the insert is done or refused; onboardUser returns or
\* throws, and the entry point answers.
InsertProfileStep(r) ==
  LET q == req[r] IN
  /\ q.pc = "insertProfile"
  /\ Answering = {}
  /\ IF ProfileInsertFails(profiles, q.userId)
     THEN /\ Finish(r, q, ThrownResponse(q.route, "Failed to create profile"))
          /\ UNCHANGED profiles
     ELSE /\ profiles' =
               ProfileInsert(profiles,
                 ProfileData(q.userId, q.org, ExtractFullName(q.metadata)))
          /\ Finish(r, [q EXCEPT !.pIns = q.pIns + 1,
                                  !.pFor = profiles'[Len(profiles')].id],
                    OnboardedResponse(q.route, q.org, q.userId))
  /\ UNCHANGED <<organizations, received, svcLog, svcCalls, supabaseAdmin, chatVars>>

\* completeOnboarding, already onboarded: the profile lookup returns
\* (.single(): exactly one row, else an error that is thrown).
FetchProfileStep(r) ==
  LET q == req[r]
      rows == ProfilesOf(profiles, q.userId)
  IN
  /\ q.pc = "fetchProfile"
  /\ Answering = {}
  /\ IF Cardinality(rows) = 1
     THEN Continue(r, [q EXCEPT !.pc = "fetchOrg",
                                !.org = profiles[CHOOSE i \in rows : TRUE].org_id])
     ELSE Finish(r, q, ThrownResponse(q.route, "Failed to fetch existing profile"))
  /\ UNCHANGED <<organizations, profiles, received, svcLog, svcCalls, supabaseAdmin, chatVars>>

\* completeOnboarding, already onboarded: the organization lookup returns.
FetchOrgStep(r) ==
  LET q == req[r] IN
  /\ q.pc = "fetchOrg"
  /\ Answering = {}
  /\ IF q.org \in DOMAIN organizations
     THEN Finish(r, q,
            Response(200, "true", "User already onboarded", Absent, q.org, q.userId))
     ELSE Finish(r, q, ThrownResponse(q.route, "Failed to fetch existing organization"))
  /\ UNCHANGED <<organizations, profiles, received, svcLog, svcCalls, supabaseAdmin, chatVars>>

\* The response is sent and the request is over: its slot is free again.
ResponseSent(r) ==
  /\ req[r].pc = "done"
  /\ req' = [req EXCEPT ![r] = IdleRequest]
  /\ UNCHANGED <<organizations, profiles, received, firstDone, svcLog, svcCalls, supabaseAdmin, chatVars>>

\* Signup metadata the auth webhook may carry.
WebhookMetadata ==
  {Metadata(n, Undefined, Undefined) : n \in {Undefined, Str(<<"a">>)}}

\* A user id in a request body, or none.
BodyUserIds == Users \cup {Absent}

\* A userId field in the body of POST /api/onboarding/complete, or none.
CompleteBodyUserIds == {Absent, "u2"}

Next ==
  \/ \E r \in Slots, route \in StaticRoutes, hdr \in Headers :
       ReceiveStatic(r, route, hdr)
  \/ \E r \in Slots, hdr \in Headers, n \in RequestNames,
        u \in CompleteBodyUserIds :
       ReceiveComplete(r, hdr, n, u)
  \/ \E r \in Slots, hdr \in Headers, u \in BodyUserIds,
        n \in {Undefined, Num} :
       ReceiveManualOnboard(r, hdr, u, n)
  \/ \E r \in Slots, type \in {"INSERT", "user.created", "UPDATE"},
        u \in BodyUserIds, m \in WebhookMetadata :
       ReceiveAuthWebhook(r, NoHeader, type, u, m)
  \/ \E r \in Slots : IsUserOnboardedStep(r)
  \/ \E r \in Slots : SearchOrgStep(r)
  \/ \E r \in Slots : InsertOrgStep(r)
  \/ \E r \in Slots : InsertProfileStep(r)
  \/ \E r \in Slots : FetchProfileStep(r)
  \/ \E r \in Slots : FetchOrgStep(r)
  \/ \E r \in Slots : ResponseSent(r)

\* The HTTP entry points under any interleaving of their datastore calls.
Spec == Init /\ [][Next]_vars

(***************************************************************************)
(* The same entry points when the datastore may answer a call with an      *)
(* error (connection lost, permission denied, ...) and when the server may *)
(* have been started without the service-role key.                         *)
(***************************************************************************)
\* The isUserOnboarded lookup answers with an error other than PGRST116.
IsUserOnboardedErrorStep(r) ==
  LET q == req[r] IN
  /\ q.pc = "isUserOnboarded"
  /\ Answering = {}
  /\ supabaseAdmin
  /\ AfterIsUserOnboarded(r, [q EXCEPT !.lookupFailed = TRUE],
       IsUserOnboardedOutcome(supabaseAdmin, TRUE, profiles, q.userId))
  /\ UNCHANGED <<organizations, profiles, received, svcLog, svcCalls, supabaseAdmin, chatVars>>

\* What the handler throws when the call it awaits answers with an error.
DatastoreErrorMessage(pc) ==
  CASE pc = "searchOrg" -> "Failed to search for organization"
    [] pc = "insertOrg" -> "Failed to create organization"
    [] pc = "insertProfile" -> "Failed to create profile"
    [] pc = "fetchProfile" -> "Failed to fetch existing profile"
    [] pc = "fetchOrg" -> "Failed to fetch existing organization"

\* The organization search, either insert or either lookup of
\* completeOnboarding answers with an error: nothing is written, the error
\* is thrown and the entry point answers.
DatastoreErrorStep(r) ==
  LET q == req[r] IN
  /\ q.pc \in {"searchOrg", "insertOrg", "insertProfile", "fetchProfile", "fetchOrg"}
  /\ Answering = {}
  /\ Finish(r, q, ThrownResponse(q.route, DatastoreErrorMessage(q.pc)))
  /\ UNCHANGED <<organizations, profiles, received, svcLog, svcCalls, supabaseAdmin, chatVars>>

FaultInit ==
  /\ organizations = <<>>
  /\ profiles = <<>>
  /\ req = [r \in Slots |-> IdleRequest]
  /\ received = 0
  /\ firstDone = [u \in Users |-> NoFirst]
  /\ svcLog = <<>>
  /\ svcCalls = 0
  /\ supabaseAdmin \in BOOLEAN
  /\ geminiModel = FALSE
  /\ chatController = InMemory
  /\ conversations = <<>>
  /\ messages = <<>>
  /\ chat = IdleChat
  /\ chatReceived = 0

FaultNext ==
  \/ \E r \in Slots, u \in Users, n \in {Str(<<"a">>), Str(<<"b">>)} :
       ReceiveComplete(r, TokenOf(u), n, Absent)
  \/ \E r \in Slots, u \in Users :
       ReceiveManualOnboard(r, TokenOf("u1"), u, Undefined)
  \/ \E r \in Slots, u \in Users, m \in WebhookMetadata :
       ReceiveAuthWebhook(r, NoHeader, "INSERT", u, m)
  \/ \E r \in Slots : IsUserOnboardedStep(r)
  \/ \E r \in Slots : IsUserOnboardedErrorStep(r)
  \/ \E r \in Slots : SearchOrgStep(r)
  \/ \E r \in Slots : InsertOrgStep(r)
  \/ \E r \in Slots : InsertProfileStep(r)
  \/ \E r \in Slots : FetchProfileStep(r)
  \/ \E r \in Slots : FetchOrgStep(r)
  \/ \E r \in Slots : DatastoreErrorStep(r)
  \/ \E r \in Slots : ResponseSent(r)

\* The onboarding entry points with datastore faults.
SpecFault == FaultInit /\ [][FaultNext]_vars


(***************************************************************************)
(* The service called directly, each call run to its end before the next.  *)
(***************************************************************************)
NoRow == ProfileRow(Absent, 0, Absent, Null)

\* findOrCreateOrganization(orgName): every outcome it can have on the table
\* orgs: whether it threw, the id of the organization it returned, the table
\* afterwards and the number of rows it inserted.
FindOrCreateOrganization(orgs, orgName) ==
  IF NormalizeThrows(orgName)
  THEN {[threw |-> TRUE, org |-> 0, orgs |-> orgs, oIns |-> 0]}
  ELSE {IF o # 0
        THEN [threw |-> FALSE, org |-> o, orgs |-> orgs, oIns |-> 0]
        ELSE [threw |-> FALSE,
              org |-> Len(OrgInsert(orgs, NormalizedName(orgName))),
              orgs |-> OrgInsert(orgs, NormalizedName(orgName)),
              oIns |-> 1]
        : o \in OrgSearchResults(orgs, NormalizedName(orgName))}

\* Mutant: an upsert in place of the insert.
CreateProfileUpsert(profs, userId, orgId, fullName) ==
  [threw |-> FALSE, profile |-> ProfileData(userId, orgId, fullName),
   profs |-> IF ProfileInsertFails(profs, userId)
             THEN [i \in DOMAIN profs |->
                     IF profs[i].id = userId
                     THEN ProfileData(userId, orgId, fullName)
                     ELSE profs[i]]
             ELSE ProfileInsert(profs, ProfileData(userId, orgId, fullName)),
   pIns |-> IF ProfileInsertFails(profs, userId) THEN 0 ELSE 1]

\* createProfile(userId, orgId, fullName) on the table profs.
CreateProfile(profs, userId, orgId, fullName) ==
  IF ProfileInsertFails(profs, userId)
  THEN [threw |-> TRUE, profile |-> NoRow, profs |-> profs, pIns |-> 0]
  ELSE [threw |-> FALSE, profile |-> ProfileData(userId, orgId, fullName),
        profs |-> ProfileInsert(profs, ProfileData(userId, orgId, fullName)),
        pIns |-> 1]

\* Mutant: the organization is taken back when createProfile throws.
OnboardUserCompensating(orgs, profs, userId, metadata) ==
  {IF f.threw \/ CreateProfile(profs, userId, f.org, ExtractFullName(metadata)).threw
   THEN [threw |-> TRUE, org |-> 0, profile |-> NoRow,
         orgs |-> orgs, profs |-> profs, oIns |-> f.oIns, pIns |-> 0]
   ELSE LET c == CreateProfile(profs, userId, f.org, ExtractFullName(metadata))
        IN  [threw |-> FALSE, org |-> f.org, profile |-> c.profile,
             orgs |-> f.orgs, profs |-> c.profs, oIns |-> f.oIns, pIns |-> c.pIns]
   : f \in FindOrCreateOrganization(orgs, ExtractOrgName(metadata))}

\* onboardUser(userId, metadata): findOrCreateOrganization, then
\* createProfile; what either throws is thrown again.
OnboardUser(orgs, profs, userId, metadata) ==
  {IF f.threw
   THEN [threw |-> TRUE, org |-> 0, profile |-> NoRow,
         orgs |-> f.orgs, profs |-> profs, oIns |-> f.oIns, pIns |-> 0]
   ELSE LET c == CreateProfile(profs, userId, f.org, ExtractFullName(metadata))
        IN  [threw |-> c.threw, org |-> IF c.threw THEN 0 ELSE f.org,
             profile |-> c.profile, orgs |-> f.orgs, profs |-> c.profs,
             oIns |-> f.oIns, pIns |-> c.pIns]
   : f \in FindOrCreateOrganization(orgs, ExtractOrgName(metadata))}

\* One call in the log: the operation, its arguments and its outcome
\* (onboarded: isUserOnboarded's result).
Logged(op, userId, orgName, metadata, out, onboarded) ==
  [op |-> op, userId |-> userId, orgName |-> orgName, metadata |-> metadata,
   threw |-> out.threw, org |-> out.org, profile |-> out.profile,
   oIns |-> out.oIns, pIns |-> out.pIns, onboarded |-> onboarded]

\* The log keeps the last two calls.
Record(entry) ==
  /\ svcCalls' = svcCalls + 1
  /\ svcLog' = IF svcLog = <<>> THEN <<entry>>
               ELSE <<svcLog[Len(svcLog)], entry>>

CallFindOrCreateOrganization(orgName) ==
  /\ svcCalls < MaxSvcCalls
  /\ \E f \in FindOrCreateOrganization(organizations, orgName) :
       /\ organizations' = f.orgs
       /\ Record(Logged("findOrCreateOrganization", Absent, orgName, NoMetadata,
                        [f EXCEPT !.orgs = <<>>] @@ [profile |-> NoRow, pIns |-> 0],
                        FALSE))
  /\ UNCHANGED <<profiles, req, received, firstDone, supabaseAdmin, chatVars>>

CallOnboardUser(userId, metadata) ==
  /\ svcCalls < MaxSvcCalls
  /\ \E o \in OnboardUser(organizations, profiles, userId, metadata) :
       /\ organizations' = o.orgs
       /\ profiles' = o.profs
       /\ Record(Logged("onboardUser", userId, Undefined, metadata, o, FALSE))
  /\ UNCHANGED <<req, received, firstDone, supabaseAdmin, chatVars>>

CallIsUserOnboarded(userId) ==
  /\ svcCalls < MaxSvcCalls
  /\ Record(Logged("isUserOnboarded", userId, Undefined, NoMetadata,
                   [threw |-> FALSE, org |-> 0, profile |-> NoRow,
                    oIns |-> 0, pIns |-> 0],
                   IsUserOnboarded(profiles, userId)))
  /\ UNCHANGED <<organizations, profiles, req, received, firstDone, supabaseAdmin, chatVars>>

\* createProfile(userId, orgId, fullName) called on its own; orgId is the id
\* of an organization row.
CallCreateProfile(userId, orgId, fullName) ==
  /\ svcCalls < MaxSvcCalls
  /\ orgId \in DOMAIN organizations
  /\ LET c == CreateProfile(profiles, userId, orgId, fullName)
     IN  /\ profiles' = c.profs
         /\ Record(Logged("createProfile", userId, Undefined, NoMetadata,
                          [threw |-> c.threw, org |-> orgId, profile |-> c.profile,
                           oIns |-> 0, pIns |-> c.pIns],
                          FALSE))
  /\ UNCHANGED <<organizations, req, received, firstDone, supabaseAdmin, chatVars>>

\* Signup metadata handed to onboardUser.
MetadataInputs ==
  {Metadata(n, Undefined, Undefined) : n \in NameInputs}
  \cup {Metadata(n, Str(<<"b">>), Undefined) : n \in {Undefined, Str(<<>>), Str(<<"a">>)}}
  \cup {Metadata(Str(<<"a">>), Undefined, f) : f \in {Str(<<>>), Str(<<"J", "o">>)}}

SeqNext ==
  \/ \E n \in NameInputs : CallFindOrCreateOrganization(n)
  \/ \E u \in Users, m \in MetadataInputs : CallOnboardUser(u, m)
  \/ \E u \in Users : CallIsUserOnboarded(u)
  \/ \E u \in Users, o \in DOMAIN organizations, f \in {Undefined, Str(<<"J", "o">>)} :
       CallCreateProfile(u, o, f)

\* The service under a single sequential caller.
SpecSeq == Init /\ [][SeqNext]_vars

(***************************************************************************)
(* The same caller when the profile lookup may answer with an error and    *)
(* the server may have been started without the service-role key.          *)
(***************************************************************************)
LookupFailed == "isUserOnboarded (the lookup answered with an error)"

\* isUserOnboarded(userId); lookupError: the datastore answers the lookup
\* with an error other than PGRST116.  Nothing is written.
CallIsUserOnboardedFaulty(userId, lookupError) ==
  LET out == IsUserOnboardedOutcome(supabaseAdmin, lookupError, profiles, userId)
  IN
  /\ svcCalls < MaxSvcCalls
  /\ lookupError => supabaseAdmin
  /\ Record(Logged(IF lookupError THEN LookupFailed ELSE "isUserOnboarded",
                   userId, Undefined, NoMetadata,
                   [threw |-> out.threw, org |-> 0, profile |-> NoRow,
                    oIns |-> 0, pIns |-> 0],
                   out.onboarded))
  /\ UNCHANGED <<organizations, profiles, req, received, firstDone, supabaseAdmin, chatVars>>

\* onboardUser(userId, metadata): without an admin client
\* findOrCreateOrganization throws before anything is read or written.
CallOnboardUserDeployed(userId, metadata) ==
  IF supabaseAdmin
  THEN CallOnboardUser(userId, metadata)
  ELSE /\ svcCalls < MaxSvcCalls
       /\ Record(Logged("onboardUser", userId, Undefined, metadata,
                        [threw |-> TRUE, org |-> 0, profile |-> NoRow,
                         oIns |-> 0, pIns |-> 0],
                        FALSE))
       /\ UNCHANGED <<organizations, profiles, req, received, firstDone,
                      supabaseAdmin, chatVars>>

SeqFaultNext ==
  \/ \E u \in Users, e \in BOOLEAN : CallIsUserOnboardedFaulty(u, e)
  \/ \E u \in Users, m \in WebhookMetadata : CallOnboardUserDeployed(u, m)

\* The service under a single caller, with lookup errors.
SpecSeqFault == FaultInit /\ [][SeqFaultNext]_vars

(***************************************************************************)
(* The database trigger on_auth_user_created, which runs                   *)
(* handle_new_user_onboarding() for every row inserted into auth.users,    *)
(* next to the service.                                                    *)
(***************************************************************************)
\* v_org_name: COALESCE(meta->>'organization_name', meta->>'organizationName',
\* 'Default Organization'); an empty string is not null.
TriggerOrgName(metadata) ==
  IF metadata.organization_name.t = "string" THEN metadata.organization_name.s
  ELSE IF metadata.organizationName.t = "string" THEN metadata.organizationName.s
  ELSE DefaultOrganization

\* WHERE LOWER(TRIM(name)) = LOWER(TRIM(v_org_name))
TriggerMatchingOrgs(orgs, name) ==
  {i \in DOMAIN orgs : ToLower(Trim(orgs[i])) = ToLower(Trim(name))}

\* handle_new_user_onboarding() for the new auth.users row (userId,
\* metadata): every outcome on the two tables.  LIMIT 1 without ORDER BY
\* takes any matching row.
HandleNewUserOnboarding(orgs, profs, userId, metadata) ==
  LET name == TriggerOrgName(metadata)
      found == TriggerMatchingOrgs(orgs, name)
  IN
  IF ProfilesOf(profs, userId) # {}
  THEN {[threw |-> FALSE, org |-> 0, profile |-> NoRow, orgs |-> orgs,
         profs |-> profs, oIns |-> 0, pIns |-> 0]}
  ELSE IF found = {}
  THEN LET created == OrgInsert(orgs, Trim(name))
           row == ProfileRow(userId, Len(created), "member", Null)
       IN  {[threw |-> FALSE, org |-> Len(created), profile |-> row,
             orgs |-> created, profs |-> ProfileInsert(profs, row),
             oIns |-> 1, pIns |-> 1]}
  ELSE {[threw |-> FALSE, org |-> o,
         profile |-> ProfileRow(userId, o, "member", Null),
         orgs |-> orgs,
         profs |-> ProfileInsert(profs, ProfileRow(userId, o, "member", Null)),
         oIns |-> 0, pIns |-> 1] : o \in found}

\* A row is inserted into auth.users and the trigger runs.
AuthUserInserted(userId, metadata) ==
  /\ svcCalls < MaxSvcCalls
  /\ \E o \in HandleNewUserOnboarding(organizations, profiles, userId, metadata) :
       /\ organizations' = o.orgs
       /\ profiles' = o.profs
       /\ Record(Logged("handle_new_user_onboarding", userId, Undefined, metadata,
                        o, FALSE))
  /\ UNCHANGED <<req, received, firstDone, supabaseAdmin, chatVars>>

\* Signup metadata: organization_name present, absent, empty or padded with
\* whitespace, or given as organizationName.
SignupMetadata ==
  {Metadata(n, Undefined, Undefined) : n \in NameInputs \ {Num}}
  \cup {Metadata(Undefined, Str(<<"b">>), Undefined)}

TriggerNext ==
  \/ \E u \in Users, m \in SignupMetadata : AuthUserInserted(u, m)
  \/ \E u \in Users, m \in SignupMetadata : CallOnboardUser(u, m)

\* New users onboarded by the trigger or by the service, one after the
\* other.
SpecTrigger == Init /\ [][TriggerNext]_vars


(***************************************************************************)
(* The chat workflow: POST /api/chat/message.  The repository holds two    *)
(* chat controllers: one on the Supabase tables that asks GeminiService    *)
(* for the reply, one on in-memory arrays that always echoes.  Requests    *)
(* are handled one after the other.                                        *)
(***************************************************************************)
onboardingVars ==
  <<organizations, profiles, req, received, firstDone, svcLog, svcCalls,
    supabaseAdmin>>

\* content.substring(0, 30): the length of the title's prefix.
TitleLength == 30

Min(a, b) == IF a < b THEN a ELSE b

\* s.substring(0, n)
Substring(s, n) == SubSeq(s, 1, Min(n, Len(s)))

Ellipsis == <<".", ".", ".">>

\* Mutant: the dots are appended to every title.
TitleAlwaysEllipsis(content) == Str(Substring(content.s, TitleLength) \o Ellipsis)

\* The title of a conversation created by sendMessage.
Title(content) ==
  Str(Substring(content.s, TitleLength)
      \o (IF Len(content.s) > TitleLength THEN Ellipsis ELSE <<>>))

\* `${v}` in a template literal.
TemplateString(v) ==
  IF v.t = "undefined" THEN <<"u", "n", "d", "e", "f", "i", "n", "e", "d">>
  ELSE v.s

\* Mutant: replyContent keeps the '' it was initialised with.
EchoReplyEmpty(content) == Str(<<>>)

\* `I got this input: ${content}`
EchoReply(content) ==
  Str(<<"I", " ", "g", "o", "t", " ", "t", "h", "i", "s", " ",
        "i", "n", "p", "u", "t", ":", " ">> \o TemplateString(content))

\* What the external completion call returns when it succeeds.
GeminiText == Str(<<"o", "k">>)

Digit(k) == CASE k = 1 -> "1" [] k = 2 -> "2" [] k = 3 -> "3" [] k = 4 -> "4"
              [] k = 5 -> "5" [] k = 6 -> "6" [] OTHER -> "9"

\* The id the k-th conversation gets (gen_random_uuid(), generateId('conv')).
ConvIdOf(k) == Str(<<"c", Digit(k)>>)

ConversationRow(id, user_id, org_id, title) ==
  [id |-> id, user_id |-> user_id, org_id |-> org_id, title |-> title]

MessageRow(conversation_id, org_id, user_id, role, content, created_at) ==
  [conversation_id |-> conversation_id, org_id |-> org_id, user_id |-> user_id,
   role |-> role, content |-> content, created_at |-> created_at]

\* created_at of a row inserted into the messages table (default now()):
\* the database clock, later at every insert.
DatabaseNow(msgs) == Len(msgs) + 1

\* The milliseconds between two requests to the in-memory controller.
ClockGaps == {10, 100}

\* Date.now() when the in-memory sendMessage runs: gap milliseconds after
\* the request before it.
DateNow(msgs, gap) ==
  IF msgs = <<>> THEN gap
  ELSE msgs[Len(msgs) - 1].created_at + gap

\* new Date(Date.now() + 50): how far ahead the assistant message is dated.
AssistantDelay == 50

\* rows.sort((a, b) => new Date(a.created_at) - new Date(b.created_at)) and
\* .order('created_at', {ascending: true}): ascending, rows of equal time in
\* the order they had.
RECURSIVE SortByCreatedAt(_)
SortByCreatedAt(rows) ==
  IF rows = <<>> THEN <<>>
  ELSE LET s == SortByCreatedAt(SubSeq(rows, 1, Len(rows) - 1))
           m == rows[Len(rows)]
           k == Cardinality({i \in DOMAIN s : s[i].created_at <= m.created_at})
       IN  SubSeq(s, 1, k) \o <<m>> \o SubSeq(s, k + 1, Len(s))

\* The messages of conversation id, oldest first.
MessagesOf(msgs, id) ==
  SortByCreatedAt(SelectSeq(msgs, LAMBDA m : m.conversation_id = id))

\* select('role, content')
RoleAndContent(rows) ==
  [i \in DOMAIN rows |-> [role |-> rows[i].role, content |-> rows[i].content]]

\* history.slice(0, -1)
SliceButLast(s) == SubSeq(s, 1, Len(s) - 1)

\* contextHistory: the conversation's messages as read back, without the
\* last one.
ContextHistory(msgs, chatId) == SliceButLast(RoleAndContent(MessagesOf(msgs, chatId)))

\* conversations.insert / conversations.push
ConversationInsert(convs, user, title) ==
  Append(convs, ConversationRow(ConvIdOf(Len(convs) + 1), user.id, user.org_id, title))

\* The messages table refuses a row whose conversation_id names no
\* conversation (foreign key) or whose content is null (not null).
MessageInsertFails(convs, row) ==
  \/ \A i \in DOMAIN convs : convs[i].id # row.conversation_id
  \/ row.content.t # "string"

\* req.user as authMiddleware leaves it for each user's token.
ChatUsers == {ReqUser(TokenOf(u), profiles) : u \in Users}

\* Bodies: no conversation_id, an empty one, the id of the first
\* conversation, an id no conversation has.
ConversationIds == {Undefined, Str(<<>>), ConvIdOf(1), ConvIdOf(9)}

Contents ==
  { Undefined, Str(<<"h", "i">>),
    Str([i \in 1..TitleLength |-> "x"]),
    Str([i \in 1..(TitleLength + 1) |-> "y"]) }

\* The global error middleware's answer to a thrown error.
ChatInternalError == ChatResponse(500, FALSE, Undefined, Undefined, Undefined)

ChatAnswered(c, resp) == [c EXCEPT !.pc = "done", !.resp = resp]

ChatArrived(user, conversation_id, content) ==
  [IdleChat EXCEPT !.user = user, !.conversation_id = conversation_id,
                   !.content = content, !.chatId = conversation_id,
                   !.convsBefore = Len(conversations),
                   !.msgsBefore = Len(messages)]

CanReceiveChat ==
  /\ chat.pc = "idle"
  /\ chatReceived < MaxChatRequests

\* A conversation id a client sends: none, the id of a conversation the
\* server has created (ids are gen_random_uuid() or generateId('conv'): not
\* known before), or an id no conversation has.
ClientConversationId(id) ==
  \/ ~Truthy(id)
  \/ id = ConvIdOf(9)
  \/ \E i \in DOMAIN conversations : conversations[i].id = id


\* sendMessage of the Supabase controller up to its first await: the
\* organization check, then either the title of the new conversation (which
\* throws on a missing content) or the given conversation_id.
ReceiveSendMessage(user, conversation_id, content) ==
  LET c == ChatArrived(user, conversation_id, content) IN
  /\ chatController = Supabase
  /\ CanReceiveChat
  /\ ClientConversationId(conversation_id)
  /\ chatReceived' = chatReceived + 1
  /\ chat' =
       IF user.org_id = 0
       THEN ChatAnswered(c, ChatResponse(400, TRUE, Undefined, Undefined, Undefined))
       ELSE IF Truthy(conversation_id)
       THEN [c EXCEPT !.pc = "insertUserMessage"]
       ELSE IF content.t # "string"
       THEN ChatAnswered(c, ChatInternalError)
       ELSE [c EXCEPT !.pc = "insertConversation"]
  /\ UNCHANGED <<onboardingVars, geminiModel, chatController, conversations, messages>>

\* The conversation is inserted; its id becomes chatId.
InsertConversationStep ==
  /\ chat.pc = "insertConversation"
  /\ conversations' = ConversationInsert(conversations, chat.user, Title(chat.content))
  /\ chat' = [chat EXCEPT !.pc = "insertUserMessage",
                          !.chatId = conversations'[Len(conversations')].id]
  /\ UNCHANGED <<onboardingVars, geminiModel, chatController, messages, chatReceived>>

\* The user's message is inserted, or refused by the table and the error
\* thrown.
InsertUserMessageStep ==
  LET row == MessageRow(chat.chatId, chat.user.org_id, chat.user.id, "user",
                        chat.content, DatabaseNow(messages))
  IN
  /\ chat.pc = "insertUserMessage"
  /\ IF MessageInsertFails(conversations, row)
     THEN /\ chat' = ChatAnswered(chat, ChatInternalError)
          /\ UNCHANGED messages
     ELSE /\ messages' = Append(messages, row)
          /\ chat' = [chat EXCEPT !.pc = "fetchHistory",
                                  !.userMsgAt = Len(messages')]
  /\ UNCHANGED <<onboardingVars, geminiModel, chatController, conversations, chatReceived>>

\* The conversation's messages are read; all but the last are the context
\* handed to generateReply.
FetchHistoryStep ==
  /\ chat.pc = "fetchHistory"
  /\ chat' = [chat EXCEPT !.pc = "generateReply",
                          !.contextHistory = ContextHistory(messages, chat.chatId)]
  /\ UNCHANGED <<onboardingVars, geminiModel, chatController, conversations, messages,
                 chatReceived>>

\* geminiService.generateReply returns or throws (it throws at once when
\* no model was initialised); sendMessage catches and falls back to the
\* echo.
GenerateReplyStep(throws) ==
  /\ chat.pc = "generateReply"
  /\ ~geminiModel => throws
  /\ chat' = [chat EXCEPT !.pc = "insertAssistantMessage",
                          !.geminiFailed = throws,
                          !.replyContent = IF throws THEN EchoReply(chat.content)
                                           ELSE GeminiText]
  /\ UNCHANGED <<onboardingVars, geminiModel, chatController, conversations, messages,
                 chatReceived>>

\* The assistant's message is inserted and the response is sent.
InsertAssistantMessageStep ==
  LET row == MessageRow(chat.chatId, chat.user.org_id, Absent, "assistant",
                        chat.replyContent, DatabaseNow(messages))
  IN
  /\ chat.pc = "insertAssistantMessage"
  /\ messages' = Append(messages, row)
  /\ chat' = ChatAnswered(chat,
               ChatResponse(200, FALSE, chat.chatId, chat.content, chat.replyContent))
  /\ UNCHANGED <<onboardingVars, geminiModel, chatController, conversations, chatReceived>>

\* A datastore call of sendMessage answers with an error.  The inserts'
\* errors are thrown; the history read's error is not looked at, and
\* history.filter then throws on the null data.  Either way the global
\* error middleware answers.
ChatDatastoreErrorStep ==
  /\ chat.pc \in {"insertConversation", "insertUserMessage", "fetchHistory",
                  "insertAssistantMessage"}
  /\ chat' = ChatAnswered([chat EXCEPT !.fault = chat.pc], ChatInternalError)
  /\ UNCHANGED <<onboardingVars, geminiModel, chatController, conversations, messages,
                 chatReceived>>

\* sendMessage of the in-memory controller: it awaits nothing, so the whole
\* handler is one step.
SendMessageInMemory(user, conversation_id, content, gap) ==
  LET c == ChatArrived(user, conversation_id, content)
      now == DateNow(messages, gap)
      new == ~Truthy(conversation_id)
      convs == IF new THEN ConversationInsert(conversations, user, Title(content))
               ELSE conversations
      chatId == IF new THEN convs[Len(convs)].id ELSE conversation_id
  IN
  /\ chatController = InMemory
  /\ CanReceiveChat
  /\ ClientConversationId(conversation_id)
  /\ chatReceived' = chatReceived + 1
  /\ IF new /\ content.t # "string"
     THEN /\ chat' = ChatAnswered(c, ChatInternalError)
          /\ UNCHANGED <<conversations, messages>>
     ELSE /\ conversations' = convs
          /\ messages' =
               messages \o
                 << MessageRow(chatId, 0, user.id, "user", content, now),
                    MessageRow(chatId, 0, Absent, "assistant", EchoReply(content),
                               now + AssistantDelay) >>
          /\ chat' = ChatAnswered([c EXCEPT !.chatId = chatId,
                                            !.replyContent = EchoReply(content)],
                       ChatResponse(200, FALSE, chatId, content, EchoReply(content)))
  /\ UNCHANGED <<onboardingVars, geminiModel, chatController>>

\* GET /api/chat/conversations/:id/messages of the in-memory controller:
\* the messages of conversation id, sorted by created_at.  Nothing is
\* written.
ListMessagesInMemory(user, id) ==
  /\ chatController = InMemory
  /\ chat.pc = "idle"
  /\ ClientConversationId(id)
  /\ chat' = [ChatArrived(user, id, Undefined) EXCEPT
                !.pc = "listed", !.listed = MessagesOf(messages, id)]
  /\ UNCHANGED <<onboardingVars, geminiModel, chatController, conversations, messages,
                 chatReceived>>

\* The response is sent; the next request can be taken.
ChatResponseSent ==
  /\ chat.pc \in {"done", "listed"}
  /\ chat' = IdleChat
  /\ UNCHANGED <<onboardingVars, geminiModel, chatController, conversations, messages,
                 chatReceived>>

\* One organization with one member; the deployment is any of the four.
ChatInit ==
  /\ organizations = OrgInsert(<<>>, <<"a">>)
  /\ profiles = ProfileInsert(<<>>, ProfileData("u1", 1, Null))
  /\ req = [r \in Slots |-> IdleRequest]
  /\ received = 0
  /\ firstDone = [u \in Users |-> NoFirst]
  /\ svcLog = <<>>
  /\ svcCalls = 0
  /\ supabaseAdmin = TRUE
  /\ geminiModel \in BOOLEAN
  /\ chatController \in {InMemory, Supabase}
  /\ conversations = <<>>
  /\ messages = <<>>
  /\ chat = IdleChat
  /\ chatReceived = 0

ChatNext ==
  \/ \E u \in ChatUsers, id \in ConversationIds, c \in Contents :
       ReceiveSendMessage(u, id, c)
  \/ \E u \in ChatUsers, id \in ConversationIds, c \in Contents, gap \in ClockGaps :
       SendMessageInMemory(u, id, c, gap)
  \/ \E u \in ChatUsers, id \in {ConvIdOf(1), ConvIdOf(9)} :
       ListMessagesInMemory(u, id)
  \/ InsertConversationStep
  \/ InsertUserMessageStep
  \/ FetchHistoryStep
  \/ \E throws \in BOOLEAN : GenerateReplyStep(throws)
  \/ InsertAssistantMessageStep
  \/ ChatDatastoreErrorStep
  \/ ChatResponseSent

\* POST /api/chat/message under either chat controller.
SpecChat == ChatInit /\ [][ChatNext]_vars

(***************************************************************************)
(* The Supabase controller's sendMessage while another sendMessage request *)
(* writes to the same conversation.                                        *)
(***************************************************************************)
\* The user messages another request stores while this one is in flight.
MaxOverlapping == 1

\* Another sendMessage request for the same conversation, by the same
\* user, reaches its insert of the user message between two awaits of the
\* request in flight.
OverlappingUserMessage(content) ==
  LET row == MessageRow(chat.chatId, chat.user.org_id, chat.user.id, "user",
                        content, DatabaseNow(messages))
  IN
  /\ chatController = Supabase
  /\ chat.pc \in {"insertUserMessage", "fetchHistory", "generateReply",
                  "insertAssistantMessage"}
  /\ chat.overlapping < MaxOverlapping
  /\ ~MessageInsertFails(conversations, row)
  /\ messages' = Append(messages, row)
  /\ chat' = [chat EXCEPT !.overlapping = @ + 1]
  /\ UNCHANGED <<onboardingVars, geminiModel, chatController, conversations, chatReceived>>

ChatRaceInit ==
  /\ ChatInit
  /\ chatController = Supabase

ChatRaceNext ==
  \/ \E u \in ChatUsers, id \in ConversationIds, c \in Contents :
       ReceiveSendMessage(u, id, c)
  \/ InsertConversationStep
  \/ InsertUserMessageStep
  \/ FetchHistoryStep
  \/ \E throws \in BOOLEAN : GenerateReplyStep(throws)
  \/ InsertAssistantMessageStep
  \/ ChatResponseSent
  \/ \E c \in {Str(<<"y", "o">>)} : OverlappingUserMessage(c)

\* POST /api/chat/message of the Supabase controller with overlapping
\* requests on one conversation.
SpecChatRace == ChatRaceInit /\ [][ChatRaceNext]_vars


(***************************************************************************)
(* Properties of the HTTP entry points (specification Spec).               *)
(***************************************************************************)
Complete == "POST /api/onboarding/complete"

\* The answered requests of the current state.
Done == Answering

\* The handler of an answered POST /api/onboarding/complete accepted the
\* body's organization_name.
AcceptedComplete(q) ==
  /\ q.route = Complete
  /\ q.ran
  /\ q.resp.status # 400

\* C1: once a user's first POST /api/onboarding/complete has succeeded, every
\* later well-formed call with the same token answers 200 "User already
\* onboarded" with the org.id and profile.id of the first call, and inserts
\* no organization and no profile.
C1_LaterCallsReturnFirstResult ==
  \A r \in Done :
    LET q == req[r] IN
    (AcceptedComplete(q) /\ q.later)
      => /\ q.resp.status = 200
         /\ q.resp.message = "User already onboarded"
         /\ q.resp.org = firstDone[q.userId].org
         /\ q.resp.profile = firstDone[q.userId].profile
         /\ q.oIns = 0
         /\ q.pIns = 0

C1_Witness ==
  \E r \in Done :
    /\ req[r].route = Complete
    /\ req[r].later
    /\ req[r].resp.message = "User already onboarded"
    /\ req[r].resp.org = firstDone[req[r].userId].org
    /\ req[r].resp.org # 0

\* The normalized form of a stored name: trimmed, letter case ignored.
Normalized(name) == ToLower(Trim(name))

\* C3: at most one organization per normalized (trimmed, case-insensitive)
\* name, under any interleaving of the lookup and insert steps of two
\* first-time onboarding calls.
C3_OneOrganizationPerName ==
  \A i, j \in DOMAIN organizations :
    i # j => Normalized(organizations[i]) # Normalized(organizations[j])

\* C4: in every reachable state there is at most one profile row per user
\* identity, whatever the interleaving of the three entry points.
C4_OneProfilePerUser ==
  \A i, j \in DOMAIN profiles : i # j => profiles[i].id # profiles[j].id

\* A second insert for an onboarded user was attempted and refused.
C4_Witness ==
  \E r \in Done :
    /\ req[r].route = Complete
    /\ req[r].resp = ThrownResponse(Complete, "Failed to create profile")
    /\ req[r].pIns = 0
    /\ ProfilesOf(profiles, req[r].userId) # {}

\* The tables as they were before an answered request's own inserts, when
\* no other request was in flight with it.
OrgsBefore(q) == SubSeq(organizations, 1, Len(organizations) - q.oIns)

\* C8: POST /api/onboarding/complete with a valid organization_name N, from an
\* authenticated user without a profile while no organization matches N (and
\* no other request in flight), answers 200 "Onboarding completed
\* successfully"; afterwards exactly one new organization, named trim(N), and
\* exactly one new profile of that user (role member, org_id that
\* organization's id) exist.
C8_FirstCallCreatesBoth ==
  \A r \in Done :
    LET q == req[r]
        N == q.metadata.organization_name.s
    IN
    (/\ AcceptedComplete(q)
     /\ q.alone
     /\ q.user.org_id = 0
     /\ \A i \in DOMAIN OrgsBefore(q) : ~ILike(OrgsBefore(q)[i], Trim(N)))
      => /\ q.resp.status = 200
         /\ q.resp.success = "true"
         /\ q.resp.message = "Onboarding completed successfully"
         /\ q.oIns = 1
         /\ q.pIns = 1
         /\ q.resp.org = Len(organizations)
         /\ organizations[q.resp.org] = Trim(N)
         /\ q.resp.profile = q.hdr.user
         /\ profiles[Len(profiles)] =
              ProfileRow(q.hdr.user, q.resp.org, "member", Null)
         /\ Cardinality(ProfilesOf(profiles, q.hdr.user)) = 1

C8_Witness ==
  \E r \in Done :
    /\ AcceptedComplete(req[r])
    /\ req[r].alone
    /\ req[r].oIns = 1
    /\ req[r].pIns = 1
    /\ req[r].metadata.organization_name = Str(<<" ", "A">>)
    /\ organizations[req[r].resp.org] = <<"A">>

\* An organization_name that is missing, not a string, empty or
\* whitespace-only.
BlankName(v) ==
  \/ v.t # "string"
  \/ \A i \in DOMAIN v.s : v.s[i] = " "

\* C9: POST /api/onboarding/complete whose organization_name is missing, not a
\* string, empty or whitespace-only answers 400 with an error field, calls
\* the onboarding service not at all and inserts nothing.
C9_BlankNameIsRejected ==
  \A r \in Slots :
    LET q == req[r] IN
    (q.route = Complete /\ q.ran /\ BlankName(q.metadata.organization_name))
      => /\ q.pc = "done"
         /\ q.resp.status = 400
         /\ q.resp.error # Absent
         /\ q.svc = 0
         /\ q.oIns = 0
         /\ q.pIns = 0

C9_Witness ==
  \E r \in Done :
    /\ req[r].route = Complete
    /\ req[r].ran
    /\ req[r].metadata.organization_name = Str(<<" ">>)
    /\ req[r].resp.status = 400

\* The routes behind the auth gate, and those served without it.
GatedRoutes ==
  { "POST /api/onboarding/complete", "POST /webhooks/onboard",
    "GET /api/dashboard/summary", "GET /api/chat/conversations",
    "POST /api/chat/conversations", "GET /api/chat/conversations/:id/messages",
    "POST /api/chat/message" }

OpenRoutes == {"GET /api/healthz", "GET /", "POST /webhooks/auth"}

LastCall == svcLog[Len(svcLog)]

PrevCall == svcLog[1]

TwoCalls(op) ==
  /\ Len(svcLog) = 2
  /\ PrevCall.op = op
  /\ LastCall.op = op

\* Two onboardUser calls in sequence with the same userId and the same
\* metadata, the first of which returned.
RepeatedOnboard ==
  /\ TwoCalls("onboardUser")
  /\ PrevCall.userId = LastCall.userId
  /\ PrevCall.metadata = LastCall.metadata
  /\ ~PrevCall.threw

C21_DuplicateCreateProfileFails ==
  [][(/\ svcLog' # svcLog
      /\ LastCall'.op = "createProfile"
      /\ ProfilesOf(profiles, LastCall'.userId) # {})
       => /\ LastCall'.threw
          /\ LastCall'.pIns = 0
          /\ profiles' = profiles
          /\ organizations' = organizations]_vars

\* createProfile refused for a user whose profile sits in another
\* organization than the one passed in; the profile stays where it was.
C21_Witness ==
  /\ svcLog # <<>>
  /\ LastCall.op = "createProfile"
  /\ LastCall.threw
  /\ \E i \in DOMAIN profiles :
       /\ profiles[i].id = LastCall.userId
       /\ profiles[i].org_id # LastCall.org
  /\ Len(organizations) >= 2

\* C22: when onboardUser has inserted a new organization and createProfile
\* then fails, onboardUser throws, the new organization row stays (the table
\* is the one before plus that row: nothing deleted, nothing inserted a
\* second time) and the profiles table is as it was.
C22_NoCompensationAfterProfileFailure ==
  [][(/\ svcLog' # svcLog
      /\ LastCall'.op = "onboardUser"
      /\ LastCall'.oIns = 1
      /\ LastCall'.pIns = 0)
       => /\ LastCall'.threw
          /\ Len(organizations') = Len(organizations) + 1
          /\ SubSeq(organizations', 1, Len(organizations)) = organizations
          /\ organizations'[Len(organizations')]
               = LET n == ExtractOrgName(LastCall'.metadata)
                 IN  IF n.t = "string" /\ Trim(n.s) # <<>>
                     THEN Trim(n.s)
                     ELSE DefaultOrganization
          /\ profiles' = profiles]_vars

\* onboardUser for a user who has a profile, under an organization name
\* that matched nothing: the call threw and the organization it inserted is
\* the last row of the table.
C22_Witness ==
  /\ svcLog # <<>>
  /\ LastCall.op = "onboardUser"
  /\ LastCall.threw
  /\ LastCall.oIns = 1
  /\ LastCall.pIns = 0
  /\ ProfilesOf(profiles, LastCall.userId) # {}
  /\ organizations[Len(organizations)] = <<"b">>

\* Two names that differ at most in letter case and in leading or trailing
\* whitespace.
SameUpToCaseAndSpace(v, w) ==
  /\ v.t = "string"
  /\ w.t = "string"
  /\ ToLower(Trim(v.s)) = ToLower(Trim(w.s))

\* C5: of two findOrCreateOrganization calls in sequence whose names differ
\* only in letter case or surrounding whitespace, the first of which creates
\* the organization, the second returns that same organization and inserts
\* nothing.
C5_CaseAndSpaceInsensitive ==
  (/\ TwoCalls("findOrCreateOrganization")
   /\ SameUpToCaseAndSpace(PrevCall.orgName, LastCall.orgName)
   /\ PrevCall.oIns = 1)
    => /\ ~LastCall.threw
       /\ LastCall.org = PrevCall.org
       /\ LastCall.oIns = 0

C5_Witness ==
  /\ TwoCalls("findOrCreateOrganization")
  /\ PrevCall.orgName = Str(<<" ", "a", " ">>)
  /\ LastCall.orgName = Str(<<"A">>)
  /\ PrevCall.oIns = 1
  /\ LastCall.org = PrevCall.org

\* No organization name: undefined, empty or only whitespace.
NoName(v) ==
  \/ v.t = "undefined"
  \/ v.t = "string" /\ \A i \in DOMAIN v.s : v.s[i] = " "

\* The organizations table before the last call.
OrgsBeforeLast ==
  SubSeq(organizations, 1, Len(organizations) - LastCall.oIns)

\* The name findOrCreateOrganization looks up and inserts for the input v.
LookedUpName(v) ==
  IF v.t = "string" /\ Trim(v.s) # <<>> THEN Trim(v.s) ELSE DefaultOrganization

\* C24: findOrCreateOrganization returns an existing organization only if
\* that organization's name equals the normalized input name ignoring letter
\* case; an input name that differs from every existing name in more than
\* letter case (the inputs containing % or _ included) makes it insert and
\* return a new organization under the normalized name.
C24_ExactMatchOrInsert ==
  (/\ svcLog # <<>>
   /\ LastCall.op = "findOrCreateOrganization"
   /\ ~LastCall.threw)
    => /\ LastCall.org \in DOMAIN organizations
       /\ LastCall.oIns = 0
            => ToLower(organizations[LastCall.org])
                 = ToLower(LookedUpName(LastCall.orgName))
       /\ (\A i \in DOMAIN OrgsBeforeLast :
             ToLower(OrgsBeforeLast[i]) # ToLower(LookedUpName(LastCall.orgName)))
            => /\ LastCall.oIns = 1
               /\ LastCall.org = Len(organizations)
               /\ organizations[LastCall.org] = LookedUpName(LastCall.orgName)

\* The last call resolved to the default organization: the one whose name is
\* 'Default Organization' up to letter case (the lookup's own matching),
\* created under exactly that name when there was none and reused when
\* there was one.
ResolvedToDefault ==
  /\ LastCall.org \in DOMAIN organizations
  /\ ToLower(organizations[LastCall.org]) = ToLower(DefaultOrganization)
  /\ LastCall.oIns = 1
       <=> \A i \in DOMAIN OrgsBeforeLast :
             ToLower(OrgsBeforeLast[i]) # ToLower(DefaultOrganization)
  /\ LastCall.oIns = 1
       => /\ LastCall.org = Len(organizations)
          /\ organizations[LastCall.org] = DefaultOrganization

\* C6: findOrCreateOrganization called with undefined, the empty string or a
\* whitespace-only name resolves to the organization named "Default
\* Organization" (created if absent, reused if present); onboardUser with
\* metadata that carries no organization name onboards a user without a
\* profile into that organization.
C6_DefaultOrganization ==
  /\ (/\ svcLog # <<>>
      /\ LastCall.op = "findOrCreateOrganization"
      /\ NoName(LastCall.orgName))
       => (~LastCall.threw /\ ResolvedToDefault)
  /\ (/\ svcLog # <<>>
      /\ LastCall.op = "onboardUser"
      /\ NoName(LastCall.metadata.organization_name)
      /\ NoName(LastCall.metadata.organizationName)
      /\ \A i \in 1..(Len(profiles) - LastCall.pIns) :
           profiles[i].id # LastCall.userId)
       => /\ ~LastCall.threw
          /\ ResolvedToDefault
          /\ LastCall.pIns = 1
          /\ profiles[Len(profiles)].id = LastCall.userId
          /\ profiles[Len(profiles)].org_id = LastCall.org

\* The default organization is reused, under the name an earlier call gave
\* it, by an onboardUser call without an organization name.
C6_Witness ==
  /\ Len(svcLog) = 2
  /\ PrevCall.op = "findOrCreateOrganization"
  /\ PrevCall.orgName = Str(<<" ">>)
  /\ PrevCall.oIns = 1
  /\ LastCall.op = "onboardUser"
  /\ LastCall.metadata = NoMetadata
  /\ LastCall.oIns = 0
  /\ LastCall.pIns = 1
  /\ organizations[LastCall.org] = DefaultOrganization

\* C7: every profile the service creates has id = the user id passed in,
\* org_id = the id of the organization findOrCreateOrganization returned in
\* the same call, role "member", and full_name null when no full name is
\* supplied, whether the organization was found or created.
C7_ProfileFields ==
  (svcLog # <<>> /\ LastCall.op = "onboardUser" /\ ~LastCall.threw)
    => /\ LastCall.pIns = 1
       /\ profiles[Len(profiles)] = LastCall.profile
       /\ LastCall.profile.id = LastCall.userId
       /\ LastCall.profile.org_id = LastCall.org
       /\ LastCall.org \in DOMAIN organizations
       /\ LastCall.profile.role = "member"
       /\ LastCall.metadata.full_name \in {Undefined, Str(<<>>)}
            => LastCall.profile.full_name = Null
       /\ LastCall.metadata.full_name = Str(<<"J", "o">>)
            => LastCall.profile.full_name = Str(<<"J", "o">>)

\* A profile created in an organization that was found, not created.
C7_Witness ==
  /\ svcLog # <<>>
  /\ LastCall.op = "onboardUser"
  /\ ~LastCall.threw
  /\ LastCall.oIns = 0
  /\ LastCall.pIns = 1
  /\ LastCall.metadata.full_name = Undefined
  /\ profiles[Len(profiles)].full_name = Null
  /\ profiles[Len(profiles)].org_id = LastCall.org


(***************************************************************************)
(* Identity, errors and terminal state of the HTTP entry points.           *)
(***************************************************************************)
\* C11: POST /api/onboarding/complete works for the identity of the validated
\* token only: whatever userId the body carries, the handler's userId is the
\* token's user, the profile it inserts and the profile it answers with are
\* that user's, so requests that differ only in the body's userId take the
\* same steps, and no profile is created for another id.
C11_IdentityFromToken ==
  \A r \in Slots :
    LET q == req[r] IN
    (q.route = Complete /\ q.ran)
      => /\ q.user.id = q.hdr.user
         /\ q.userId = q.hdr.user
         /\ q.pFor \in {Absent, q.hdr.user}
         /\ (q.pIns > 0 => q.pFor = q.hdr.user)
         /\ (q.pc = "done" /\ q.resp.profile # Absent
               => q.resp.profile = q.hdr.user)

\* C11 happens: u1's token with a body naming u2 was onboarded as u1, and u2
\* has no profile.
C11_Witness ==
  \E r \in Done :
    /\ req[r].route = Complete
    /\ req[r].hdr = TokenOf("u1")
    /\ req[r].bodyUserId = "u2"
    /\ req[r].resp.status = 200
    /\ req[r].pIns = 1
    /\ req[r].resp.profile = "u1"
    /\ ProfilesOf(profiles, "u1") # {}
    /\ ProfilesOf(profiles, "u2") = {}

AuthWebhook == "POST /webhooks/auth"

\* C12: POST /webhooks/auth answers 200 whenever it has handled the event,
\* also when isUserOnboarded or onboardUser throws (no admin client, a failed
\* search or insert): the error becomes a 200 response with success:false
\* and the error's message.
C12_WebhookAnswers200 ==
  \A r \in Done :
    LET q == req[r] IN
    (q.route = AuthWebhook /\ q.svc >= 1)
      => /\ q.resp.status = 200
         /\ (q.pIns = 0 /\ q.resp.message # "User already onboarded"
               => /\ q.resp.success = "false"
                  /\ q.resp.error # Absent
                  /\ q.resp.message = "Webhook processed with errors")

\* C12 happens: the webhook created an organization, the profile insert
\* failed, and the answer is 200 with success:false.
C12_Witness ==
  \E r \in Done :
    /\ req[r].route = AuthWebhook
    /\ req[r].oIns = 1
    /\ req[r].pIns = 0
    /\ req[r].resp.status = 200
    /\ req[r].resp.success = "false"
    /\ req[r].resp.error = "Failed to create profile"

ManualOnboard == "POST /webhooks/onboard"

\* C13: POST /webhooks/onboard for a userId that already has a profile
\* answers 400 "User is already onboarded" and inserts nothing; a 200 is sent
\* only after the profile was created; and for a userId without a profile
\* (organizationName a string or absent, no other request overlapping) the
\* answer is 200 with the organization and the new profile.
C13_ManualOnboard ==
  \A r \in Done :
    LET q == req[r] IN
    (q.route = ManualOnboard /\ q.ran /\ q.userId # Absent)
      => /\ q.hadProfile
              => /\ q.resp.status = 400
                 /\ q.resp.error = "User is already onboarded"
         /\ q.resp.status = 400 => (q.oIns = 0 /\ q.pIns = 0)
         /\ q.resp.status = 200
              => /\ q.pIns = 1
                 /\ q.resp.success = "true"
                 /\ q.resp.profile = q.userId
                 /\ \E i \in ProfilesOf(profiles, q.userId) :
                      /\ profiles[i].org_id = q.resp.org
                      /\ q.resp.org \in DOMAIN organizations
         /\ (/\ ~q.hadProfile
             /\ q.alone
             /\ ~NormalizeThrows(ExtractOrgName(q.metadata)))
              => q.resp.status = 200

\* C13 happens: a user onboarded through the endpoint is refused the second
\* time, and the refused request wrote nothing.
C13_Witness ==
  \E r \in Done :
    /\ req[r].route = ManualOnboard
    /\ req[r].userId = "u2"
    /\ req[r].hadProfile
    /\ req[r].resp.status = 400
    /\ req[r].resp.error = "User is already onboarded"
    /\ Len(profiles) = 1
    /\ Len(organizations) = 1

\* C14: every error (non-2xx) response of any endpoint, those of the global
\* error middleware included, is a JSON object with an error field.
C14_ErrorResponsesCarryError ==
  \A r \in Done :
    req[r].resp.status >= 400 => req[r].resp.error # Absent


\* C18: every profile's org_id is the id of an organization row, in every
\* state onboarding can reach, datastore errors included.
C18_ProfileReferencesOrganization ==
  \A i \in DOMAIN profiles : profiles[i].org_id \in DOMAIN organizations

\* C18 happens: two profiles in two organizations, and one organization
\* more whose request failed before it had a profile.
C18_Witness ==
  /\ Len(profiles) = 2
  /\ Len(organizations) = 3
  /\ profiles[1].org_id # profiles[2].org_id

\* The profile rows of user u.
RowsOf(profs, u) == {profs[i] : i \in ProfilesOf(profs, u)}

\* C19: onboarded is terminal: no step of any onboarding entry point
\* deletes the profile of a user who has one or changes its org_id or its
\* role, and every profile's role is member.
C19_OnboardedIsTerminal ==
  [][ /\ \A u \in Users :
           RowsOf(profiles, u) # {} => RowsOf(profiles', u) = RowsOf(profiles, u)
      /\ \A i \in DOMAIN profiles' : profiles'[i].role = "member" ]_vars

\* C19 happens: a user onboarded into organization "a" asked for
\* organization "b" afterwards, was answered with the organization of the
\* first onboarding, and the profile is as it was.
C19_Witness ==
  \E r \in Done :
    /\ req[r].route = Complete
    /\ req[r].metadata.organization_name = Str(<<"b">>)
    /\ req[r].resp.message = "User already onboarded"
    /\ organizations[req[r].resp.org] = <<"a">>
    /\ RowsOf(profiles, req[r].userId)
         = {ProfileData(req[r].userId, req[r].resp.org, Null)}

\* C20: isUserOnboarded(userId) returns true exactly when a profile with
\* that id exists, and a lookup error other than "not found" reaches the
\* caller as a failure instead of a false.
C20_IsUserOnboardedFaithful ==
  (svcLog # <<>> /\ LastCall.op \in {"isUserOnboarded", LookupFailed})
    => /\ LastCall.op = LookupFailed => LastCall.threw
       /\ ~LastCall.threw
            => (LastCall.onboarded <=> IsUserOnboarded(profiles, LastCall.userId))

(***************************************************************************)
(* Properties of the chat workflow (specification SpecChat).               *)
(***************************************************************************)
ChatDone == chat.pc = "done"

\* The rows the answered request added to the two tables.
NewConversations ==
  SubSeq(conversations, chat.convsBefore + 1, Len(conversations))

NewMessages == SubSeq(messages, chat.msgsBefore + 1, Len(messages))

ExpectedEcho(content) ==
  <<"I", " ", "g", "o", "t", " ", "t", "h", "i", "s", " ",
    "i", "n", "p", "u", "t", ":", " ">> \o content.s

\* C15: when the external completion call fails (it throws, or no model was
\* initialised) and the datastore does not, the request is answered 200, the
\* assistant reply is "I got this input: " followed by the content, and the
\* assistant message with that content is stored in the conversation.
C15_EchoOnCompletionFailure ==
  (ChatDone /\ chat.geminiFailed /\ chat.fault = Absent)
    => /\ chat.resp.status = 200
       /\ chat.resp.assistantContent = Str(ExpectedEcho(chat.content))
       /\ Len(NewMessages) = 2
       /\ NewMessages[2].role = "assistant"
       /\ NewMessages[2].content = Str(ExpectedEcho(chat.content))
       /\ NewMessages[2].conversation_id = chat.resp.conversation_id

\* C15 happens: a model is initialised, the completion call threw, and the
\* request was answered with the echo.
C15_Witness ==
  /\ ChatDone
  /\ chatController = Supabase
  /\ geminiModel
  /\ chat.geminiFailed
  /\ chat.resp.status = 200
  /\ chat.resp.assistantContent = Str(ExpectedEcho(Str(<<"h", "i">>)))
  /\ Len(messages) = 2

\* C16: a persistence failure in the reply path (reading the history, or
\* storing the assistant message) does not fail the request.
C16_ReplyPathFailuresAreCaught ==
  (ChatDone /\ chat.fault \in {"fetchHistory", "insertAssistantMessage"})
    => chat.resp.status = 200

ExpectedTitle(content) ==
  IF Len(content.s) > 30
  THEN SubSeq(content.s, 1, 30) \o <<".", ".", ".">>
  ELSE content.s

\* C17: POST /api/chat/message creates a conversation exactly when
\* conversation_id is absent (undefined or empty): an answered request with a
\* conversation_id created none; a request answered 200 without one created
\* exactly one, titled with the first 30 characters of content, followed by
\* "..." only when content is longer, and both messages of the turn and the
\* response carry the new conversation's id.
C17_ConversationCreatedWhenAbsent ==
  /\ Truthy(chat.conversation_id) => Len(NewConversations) = 0
  /\ (ChatDone /\ chat.resp.status = 200)
       => /\ Len(NewMessages) = 2
          /\ \A i \in 1..2 : NewMessages[i].conversation_id = chat.resp.conversation_id
          /\ IF Truthy(chat.conversation_id)
             THEN chat.resp.conversation_id = chat.conversation_id
             ELSE /\ Len(NewConversations) = 1
                  /\ NewConversations[1].title = Str(ExpectedTitle(chat.content))
                  /\ NewConversations[1].id = chat.resp.conversation_id
                  /\ \A i \in 1..chat.convsBefore :
                       conversations[i].id # chat.resp.conversation_id

\* C17 happens: a request without conversation_id and with 31 characters of
\* content created a conversation whose title ends in "...".
C17_Witness ==
  /\ ChatDone
  /\ chat.resp.status = 200
  /\ chat.conversation_id = Undefined
  /\ Len(chat.content.s) = 31
  /\ Len(NewConversations) = 1
  /\ Len(NewConversations[1].title.s) = 33
  /\ chat.convsBefore = 1

C23_OverlappingCallsSucceed ==
  \A r \in Done :
    LET q == req[r] IN
    (q.route \in {Complete, "POST /webhooks/auth"} /\ q.svc >= 1)
      => /\ q.resp.status = 200
         /\ q.resp.success # "false"
         /\ q.route = Complete
              => \E i \in DOMAIN profiles :
                   /\ profiles[i].id = q.userId
                   /\ profiles[i].org_id = q.resp.org
         /\ q.pIns = 0 => q.oIns = 0

OwnersOf(id) ==
  {conversations[i].user_id : i \in {j \in DOMAIN conversations :
                                       conversations[j].id = id}}

\* C28: in the in-memory controller a conversation is read and written only
\* by the user that created it: listMessages gives the messages of another
\* user's conversation to nobody, and sendMessage with the conversation_id
\* of another user's conversation adds no message.
C28_OnlyOwnerReadsAndWrites ==
  (/\ chatController = InMemory
   /\ OwnersOf(chat.conversation_id) # {}
   /\ chat.user.id \notin OwnersOf(chat.conversation_id))
    => /\ chat.pc = "listed" => chat.listed = <<>>
       /\ chat.pc = "done" => NewMessages = <<>>

\* C30: in the in-memory controller listMessages gives the messages of the
\* conversation in the order the turns were made (the order they were
\* stored in), each user message directly followed by its own assistant
\* reply, however close in time the sendMessage calls were.
C30_ListedInTurnOrder ==
  (chatController = InMemory /\ chat.pc = "listed")
    => /\ chat.listed
            = SelectSeq(messages, LAMBDA m : m.conversation_id = chat.conversation_id)
       /\ \A i \in DOMAIN chat.listed :
            i % 2 = 1
              => /\ chat.listed[i].role = "user"
                 /\ i + 1 \in DOMAIN chat.listed
                 /\ chat.listed[i + 1].role = "assistant"
                 /\ chat.listed[i + 1].created_at = chat.listed[i].created_at + 50

(***************************************************************************)
(* The history handed to the completion call (specification SpecChatRace). *)
(***************************************************************************)
\* The role and content of the conversation's messages stored before the
\* request's own user message, in the order they were stored.
PriorMessages ==
  LET prior == SelectSeq(SubSeq(messages, 1, chat.userMsgAt - 1),
                         LAMBDA m : m.conversation_id = chat.chatId)
  IN  [i \in DOMAIN prior |-> [role |-> prior[i].role, content |-> prior[i].content]]

\* C27: the history sendMessage hands to the completion call is exactly the
\* conversation's messages stored before the request's own user message,
\* oldest first, without that message, also when another request writes to
\* the conversation meanwhile.
C27_HistoryIsPriorMessages ==
  (chatController = Supabase /\ chat.pc \in {"generateReply", "insertAssistantMessage"})
    => chat.contextHistory = PriorMessages

(***************************************************************************)
(* The trigger and the service side by side (specification SpecTrigger).   *)
(***************************************************************************)
\* The tables an onboarding mechanism can leave behind.
TablesOf(outcomes) == {<<o.orgs, o.profs>> : o \in outcomes}

\* C29: the trigger handle_new_user_onboarding and the service onboardUser
\* are interchangeable: whenever one of them runs for a user without a
\* profile (organization_name present, absent, empty or padded with
\* whitespace), the organizations and profiles it leaves are tables the
\* other one leaves when run on the same tables with the same metadata.
C29_TriggerEqualsService ==
  [][(/\ svcLog' # svcLog
      /\ ProfilesOf(profiles, LastCall'.userId) = {})
       => /\ LastCall'.op = "handle_new_user_onboarding"
               => <<organizations', profiles'>>
                    \in TablesOf(OnboardUser(organizations, profiles,
                                             LastCall'.userId, LastCall'.metadata))
          /\ LastCall'.op = "onboardUser"
               => <<organizations', profiles'>>
                    \in TablesOf(HandleNewUserOnboarding(organizations, profiles,
                                     LastCall'.userId, LastCall'.metadata))]_vars

=============================================================================
